---------------------------- MODULE Spec2Model ----------------------------
(***************************************************************************)
(* Model of scripts/extract_trace.py: the trace matcher                    *)
(* (parse_trace_filename, find_matching_trace), the command line driver    *)
(* (main) and the report builder (generate_story_report).                  *)
(*                                                                         *)
(* Text is modelled as a sequence of atoms.  An atom is either a single    *)
(* character or one of the literal markers the program searches for        *)
(* (the label "**LLM Response**:", the step names, ...).  The atom         *)
(* "<fence>" is the markdown code fence of three backquotes; the atoms     *)
(* "[MATERIALS]", "[REQUIREMENTS", "SUMMARY:" and "SOURCE:" are the four   *)
(* Chinese markers of the segment writer prompt (news material, core       *)
(* requirements, summary, source).  A multi-line text is a sequence of     *)
(* lines, as produced by split('\n').                                      *)
(* Python's None is the record None; other values are wrapped by Some.     *)
(*                                                                         *)
(* Datetimes are seconds since 2026-01-01 00:00:00 (the year of the        *)
(* traces the script's docstring shows).                                   *)
(***************************************************************************)
EXTENDS Integers, Sequences, FiniteSets, TLC

VARIABLES
    pc,            \* position of the running function
    target_item,   \* find_matching_trace: the item searched for
    trace_files,   \* find_matching_trace: glob result, in enumeration order
    fi,            \* find_matching_trace: index of the next file of the loop
    candidates,    \* find_matching_trace: list of (delta seconds, file)
    trace_path,    \* find_matching_trace: returned value
    items,         \* main: result of get_recent_items
    selection,     \* main: the line read from standard input
    effects,       \* main: external effects performed so far, in order
    exit_status,   \* main: -1 while running, else the process exit status
    trace_content, \* generate_story_report: the lines of the trace
    sources,       \* generate_story_report: the source records
    steps,         \* generate_story_report: closed steps
    current_step,  \* generate_story_report: the open step after the loop, or NoStep
    report,        \* generate_story_report: the document built so far
    wi             \* generate_story_report: index of the next writer step

vars == <<pc, target_item, trace_files, fi, candidates, trace_path,
          items, selection, effects, exit_status,
          trace_content, sources, steps, current_step, report, wi>>

matchVars == <<target_item, trace_files, fi, candidates, trace_path>>
mainVars == <<items, selection, effects, exit_status>>
reportVars == <<trace_content, sources, steps, current_step, report, wi>>

-----------------------------------------------------------------------------
(* Bounds of the model *)

MaxFiles == 2

MaxItems == 2

MaxLines == 4

MaxChunks == 4

MaxBullets == 2

MaxSources == 2

-----------------------------------------------------------------------------
(* Python values *)

None == [none |-> TRUE, v |-> <<>>]

Some(x) == [none |-> FALSE, v |-> x]

NoneInt == [none |-> TRUE, v |-> 0]

\* current_step = None in generate_story_report
NoStep == [open |-> FALSE, id |-> <<>>, name |-> <<>>, content |-> <<>>]

\* Truthiness of an optional number: None and 0 are falsy.
TruthyInt(x) == ~x.none /\ x.v # 0

Min(S) == CHOOSE x \in S : \A y \in S : x <= y

RECURSIVE AllSeqs(_, _)
AllSeqs(S, n) ==
    IF n = 0 THEN {<<>>}
    ELSE LET shorter == AllSeqs(S, n - 1)
         IN  shorter \cup {Append(s, x) : s \in {t \in shorter : Len(t) = n - 1},
                                          x \in S}

\* All sequences over S of length at most n.
SeqsUpTo(S, n) == AllSeqs(S, n)

\* Those without a repeated element.
DistinctSeqs(S, n) ==
    {s \in AllSeqs(S, n) : \A i, j \in 1..Len(s) : s[i] = s[j] => i = j}

-----------------------------------------------------------------------------
(* Strings *)

LowerChar(c) ==
    CASE c = "A" -> "a"
      [] c = "B" -> "b"
      [] c = "T" -> "t"
      [] OTHER -> c

\* str.lower()
Lower(s) == [i \in 1..Len(s) |-> LowerChar(s[i])]

\* str.replace(' ', '_')
ReplaceSpace(s) == [i \in 1..Len(s) |-> IF s[i] = " " THEN "_" ELSE s[i]]

IsSpace(c) == c \in {" ", "\t", "\n"}

IsDigit(c) == c \in {"0", "1", "2", "3", "4", "5", "6", "7", "8", "9"}

\* [a-f0-9]
IsHex(c) == IsDigit(c) \/ c \in {"a", "b", "c", "d", "e", "f"}

\* str.strip()
RECURSIVE LStrip(_)
LStrip(s) == IF s # <<>> /\ IsSpace(s[1]) THEN LStrip(Tail(s)) ELSE s

RECURSIVE RStrip(_)
RStrip(s) ==
    IF s # <<>> /\ IsSpace(s[Len(s)]) THEN RStrip(SubSeq(s, 1, Len(s) - 1)) ELSE s

Strip(s) == RStrip(LStrip(s))

\* str.startswith(pre)
StartsWith(s, pre) == Len(s) >= Len(pre) /\ SubSeq(s, 1, Len(pre)) = pre

\* a in b
IsSub(a, b) ==
    \E i \in 0..(Len(b) - Len(a)) : SubSeq(b, i + 1, i + Len(a)) = a

\* "\n".join(lines)
RECURSIVE Join(_)
Join(lines) ==
    IF lines = <<>> THEN <<>>
    ELSE IF Len(lines) = 1 THEN lines[1]
    ELSE lines[1] \o <<"\n">> \o Join(Tail(lines))

\* str.split('\n')
RECURSIVE SplitFrom(_, _, _)
SplitFrom(s, i, cur) ==
    IF i > Len(s) THEN <<cur>>
    ELSE IF s[i] = "\n" THEN <<cur>> \o SplitFrom(s, i + 1, <<>>)
    ELSE SplitFrom(s, i + 1, Append(cur, s[i]))

SplitLines(s) == SplitFrom(s, 1, <<>>)

\* str.replace(old, ''), old a single atom
RemoveAtom(s, old) == SelectSeq(s, LAMBDA c : c # old)

\* str.replace('\n', ' ')
FlattenNewlines(s) == [i \in 1..Len(s) |-> IF s[i] = "\n" THEN " " ELSE s[i]]

-----------------------------------------------------------------------------
(* parse_trace_filename *)

\* A trace filename, given by the groups of the pattern
\* trace_(\d{8})_(\d{4})_(.+)_([a-f0-9]+)\.md : gram says whether the basename
\* matches the pattern, mo/d are the month and day digits of the date group
\* (the year digits are 2026), hh/mm the digits of the time group.
NoFile == [gram |-> FALSE, mo |-> 0, d |-> 0, hh |-> 0, mm |-> 0,
           cat |-> <<>>, id |-> <<>>]

DaysInMonth(mo) ==
    CASE mo \in {1, 3, 5, 7, 8, 10, 12} -> 31
      [] mo \in {4, 6, 9, 11} -> 30
      [] mo = 2 -> 28
      [] OTHER -> 0

RECURSIVE DaysBefore(_)
DaysBefore(mo) == IF mo <= 1 THEN 0 ELSE DaysBefore(mo - 1) + DaysInMonth(mo - 1)

\* Whether strptime(dt_str, "%Y%m%d %H%M") accepts the digits.
StrptimeAccepts(f) ==
    /\ f.mo \in 1..12
    /\ f.d \in 1..DaysInMonth(f.mo)
    /\ f.hh \in 0..23
    /\ f.mm \in 0..59

\* The datetime strptime returns, in seconds since 2026-01-01 00:00.
Strptime(f) == (DaysBefore(f.mo) + f.d - 1) * 86400 + f.hh * 3600 + f.mm * 60

\* st = "nomatch": (None, None, None); st = "raise": ValueError from strptime.
parse_trace_filename(f) ==
    IF f.gram
    THEN IF StrptimeAccepts(f)
         THEN [st |-> "ok", dt |-> Strptime(f), category |-> f.cat, trace_id |-> f.id]
         ELSE [st |-> "raise", dt |-> 0, category |-> <<>>, trace_id |-> <<>>]
    ELSE [st |-> "nomatch", dt |-> 0, category |-> <<>>, trace_id |-> <<>>]

-----------------------------------------------------------------------------
(* find_matching_trace *)

\* datetime.datetime.fromtimestamp(ts), in seconds since 2026-01-01 00:00.
FromTimestamp(ts) == ts - 1767225600

\* The 60 minute window of the window check.
WindowSecs == 3600

\* item.get('category', '').replace(' ', '_')
TargetCategory(item) == ReplaceSpace(item.category)

\* The three checks of the loop body on a decoded file: TRUE when the file is
\* appended to candidates.
PassesChecks(p, item) ==
    LET publish_dt == FromTimestamp(item.publish_time.v)
    IN  /\ ~(Lower(p.category) # Lower(TargetCategory(item)))
        /\ ~(p.dt > publish_dt)
        /\ ~(publish_dt - p.dt > WindowSecs)

\* list.sort(key=lambda x: x[0]): a stable sort on the delta.
RECURSIVE InsertByDelta(_, _)
InsertByDelta(sorted, c) ==
    IF sorted = <<>> THEN <<c>>
    ELSE IF sorted[Len(sorted)].delta <= c.delta THEN Append(sorted, c)
    ELSE Append(InsertByDelta(SubSeq(sorted, 1, Len(sorted) - 1), c),
                sorted[Len(sorted)])

RECURSIVE SortByDelta(_)
SortByDelta(cs) ==
    IF cs = <<>> THEN <<>>
    ELSE InsertByDelta(SortByDelta(SubSeq(cs, 1, Len(cs) - 1)), cs[Len(cs)])

\* Lines 67-78: the publish_time guard and the initialisation of the loop.
FMT_Begin ==
    /\ pc = "fmt_begin"
    /\ IF ~TruthyInt(target_item.publish_time)
       THEN /\ trace_path' = None
            /\ pc' = "fmt_done"
            /\ UNCHANGED <<fi, candidates>>
       ELSE /\ candidates' = <<>>
            /\ fi' = 1
            /\ pc' = "fmt_loop"
            /\ UNCHANGED trace_path
    /\ UNCHANGED <<target_item, trace_files, mainVars, reportVars>>

\* Lines 83-101: one iteration of the loop over trace_files.
FMT_Iter ==
    /\ pc = "fmt_loop"
    /\ fi <= Len(trace_files)
    /\ LET f == trace_files[fi]
           p == parse_trace_filename(f)
       IN  CASE p.st = "raise" ->
                   /\ pc' = "fmt_raised"
                   /\ UNCHANGED <<fi, candidates>>
             [] p.st = "nomatch" ->
                   /\ fi' = fi + 1
                   /\ UNCHANGED <<pc, candidates>>
             [] OTHER ->
                   /\ fi' = fi + 1
                   /\ candidates' =
                        IF PassesChecks(p, target_item)
                        THEN Append(candidates,
                                    [delta |-> FromTimestamp(target_item.publish_time.v) - p.dt,
                                     f |-> f])
                        ELSE candidates
                   /\ pc' = pc
    /\ UNCHANGED <<target_item, trace_files, trace_path, mainVars, reportVars>>

\* Lines 103-108: the result.
FMT_Return ==
    /\ pc = "fmt_loop"
    /\ fi > Len(trace_files)
    /\ trace_path' = IF candidates = <<>> THEN None
                     ELSE Some(SortByDelta(candidates)[1].f)
    /\ candidates' = SortByDelta(candidates)
    /\ pc' = "fmt_done"
    /\ UNCHANGED <<target_item, trace_files, fi, mainVars, reportVars>>

NextMatch == FMT_Begin \/ FMT_Iter \/ FMT_Return

-----------------------------------------------------------------------------
(* generate_story_report: step parsing *)

\* step_pattern = ^## (\d+)\. (.+?) \((.+?)\)
\* The end of the digit run that starts at atom 3.
RECURSIVE DigitRunEnd(_, _)
DigitRunEnd(l, i) ==
    IF i + 1 <= Len(l) /\ IsDigit(l[i + 1]) THEN DigitRunEnd(l, i + 1) ELSE i

\* Positions p of " (" after a name of at least one atom, closed by a ")"
\* after a label of at least one atom.
HeaderParens(l) ==
    LET e == DigitRunEnd(l, 2)
    IN  IF /\ Len(l) >= 3 /\ l[1] = "##" /\ l[2] = " " /\ e >= 3
           /\ Len(l) >= e + 2 /\ l[e + 1] = "." /\ l[e + 2] = " "
        THEN {p \in (e + 4)..(Len(l) - 3) :
                /\ l[p] = " " /\ l[p + 1] = "("
                /\ \E q \in (p + 3)..Len(l) : l[q] = ")"}
        ELSE {}

\* step_pattern.match(line)
IsHeader(l) == HeaderParens(l) # {}

\* match.group(1): the digits
HeaderId(l) == SubSeq(l, 3, DigitRunEnd(l, 2))

\* match.group(2).strip(): the non-greedy name
HeaderName(l) ==
    Strip(SubSeq(l, DigitRunEnd(l, 2) + 3, Min(HeaderParens(l)) - 1))

\* The step opened by a header line.
OpenStep(l) ==
    [open |-> TRUE, id |-> HeaderId(l), name |-> HeaderName(l), content |-> <<>>]

\* The loop of lines 207-219 from line i on; its value is the pair of the
\* closed steps and the open step.
RECURSIVE ParseLines(_, _, _, _)
ParseLines(lines, i, stps, cur) ==
    IF i > Len(lines) THEN [steps |-> stps, current_step |-> cur]
    ELSE IF IsHeader(lines[i])
         THEN ParseLines(lines, i + 1,
                         IF cur.open THEN Append(stps, cur) ELSE stps,
                         OpenStep(lines[i]))
    ELSE IF cur.open
         THEN ParseLines(lines, i + 1, stps,
                         [cur EXCEPT !.content = Append(@, lines[i])])
    ELSE ParseLines(lines, i + 1, stps, cur)

\* The step parsing without lines 221-222: the step still open at the end of
\* the input is lost.
ParseSteps_DropsOpenStep(lines) == ParseLines(lines, 1, <<>>, NoStep).steps

\* Lines 200-222: all of the step parsing.
ParseSteps(lines) ==
    LET r == ParseLines(lines, 1, <<>>, NoStep)
    IN  IF r.current_step.open THEN Append(r.steps, r.current_step) ELSE r.steps

-----------------------------------------------------------------------------
(* generate_story_report: fragment extractors *)

\* One "report += ..." of the function: its kind, its number (0 when it has
\* none) and the texts it interpolates.
Blk(k, n, a, b, c) == [k |-> k, n |-> n, a |-> a, b |-> b, c |-> c]

EndsWithAtom(l, atom) == l # <<>> /\ l[Len(l)] = atom

\* The line "<fence>text"
TextFenceLine == <<"<fence>", "text">>

StartsWithFence(l) == l # <<>> /\ l[1] = "<fence>"

NoMatch == [found |-> FALSE, group |-> <<>>]

\* re.search(r"\*\*LLM Response\*\*:\n<fence>text\n(.*?)\n<fence>", content_str, re.DOTALL)
\* on the joined lines: a line ending in the label, the line "<fence>text", at
\* least one line of content (possibly the empty line), a line starting with
\* a fence.  The first label that admits a match and the nearest closing
\* fence are taken.
ResponseStarts(content) ==
    {i \in 1..(Len(content) - 3) :
        /\ EndsWithAtom(content[i], "**LLM Response**:")
        /\ content[i + 1] = TextFenceLine
        /\ \E j \in (i + 3)..Len(content) : StartsWithFence(content[j])}

LLMResponse(content) ==
    IF ResponseStarts(content) = {} THEN NoMatch
    ELSE LET i == Min(ResponseStarts(content))
             j == Min({j \in (i + 3)..Len(content) : StartsWithFence(content[j])})
         IN  [found |-> TRUE, group |-> Join(SubSeq(content, i + 2, j - 1))]

\* re.search(r"\*\*LLM Response\*\*:\n<fence>text\n(\[.*?\])\n<fence>", content_str, re.DOTALL):
\* the content starts with "[" and ends with a "]" that closes a line followed
\* by a fence line.
JsonEnds(content, i) ==
    {m \in (i + 2)..(Len(content) - 1) :
        /\ EndsWithAtom(content[m], "]")
        /\ (m = i + 2 => Len(content[m]) >= 2)
        /\ StartsWithFence(content[m + 1])}

JsonStarts(content) ==
    {i \in 1..(Len(content) - 3) :
        /\ EndsWithAtom(content[i], "**LLM Response**:")
        /\ content[i + 1] = TextFenceLine
        /\ content[i + 2] # <<>> /\ content[i + 2][1] = "["
        /\ JsonEnds(content, i) # {}}

JsonResponse(content) ==
    IF JsonStarts(content) = {} THEN NoMatch
    ELSE LET i == Min(JsonStarts(content))
         IN  [found |-> TRUE,
              group |-> Join(SubSeq(content, i + 2, Min(JsonEnds(content, i))))]

\* re.search(r"\*\*LLM Prompt\*\*:.*?(Role:.*?)<fence>", content_str, re.DOTALL):
\* the first prompt label, the first "Role:" after it, the first fence after
\* that, anywhere in the joined text.
PromptMatch(content) ==
    LET flat == Join(content)
        As == {a \in 1..Len(flat) : flat[a] = "**LLM Prompt**:"}
    IN  IF As = {} THEN NoMatch
        ELSE LET Rs == {r \in (Min(As) + 1)..Len(flat) : flat[r] = "Role:"}
             IN  IF Rs = {} THEN NoMatch
                 ELSE LET Cs == {c \in (Min(Rs) + 1)..Len(flat) : flat[c] = "<fence>"}
                      IN  IF Cs = {} THEN NoMatch
                          ELSE [found |-> TRUE,
                                group |-> SubSeq(flat, Min(Rs), Min(Cs) - 1)]

\* Where (\d+\. \*\*.*?\*\*:.*) can start in a line.
PrincipleStarts(l) ==
    {i \in 1..Len(l) :
        \E e \in i..(Len(l) - 5) :
            /\ \A k \in i..e : IsDigit(l[k])
            /\ l[e + 1] = "." /\ l[e + 2] = " " /\ l[e + 3] = "**"
            /\ \E k \in (e + 4)..(Len(l) - 1) : l[k] = "**" /\ l[k + 1] = ":"}

\* re.findall(r"(\d+\. \*\*.*?\*\*:.*)", prompt_text)
RECURSIVE PrinciplesOf(_)
PrinciplesOf(lines) ==
    IF lines = <<>> THEN <<>>
    ELSE LET l == lines[1]
         IN  (IF PrincipleStarts(l) = {} THEN <<>>
              ELSE <<SubSeq(l, Min(PrincipleStarts(l)), Len(l))>>)
             \o PrinciplesOf(Tail(lines))

Principles(prompt_text) == PrinciplesOf(SplitLines(prompt_text))

\* The end of the hex run that starts at atom i.
RECURSIVE HexRunEnd(_, _)
HexRunEnd(l, i) ==
    IF i + 1 <= Len(l) /\ IsHex(l[i + 1]) THEN HexRunEnd(l, i + 1) ELSE i

\* Where "- ([a-f0-9]+): (.*)" can start in a line.
IdTitleStarts(l) ==
    {i \in 1..(Len(l) - 4) :
        /\ l[i] = "-" /\ l[i + 1] = " " /\ IsHex(l[i + 2])
        /\ HexRunEnd(l, i + 2) + 2 <= Len(l)
        /\ l[HexRunEnd(l, i + 2) + 1] = ":"
        /\ l[HexRunEnd(l, i + 2) + 2] = " "}

\* item_map after the loop over re.findall(r"- ([a-f0-9]+): (.*)", prompt_text),
\* as the list of its assignments; a later assignment to a key wins.
RECURSIVE ItemMapOf(_)
ItemMapOf(lines) ==
    IF lines = <<>> THEN <<>>
    ELSE LET l == lines[1]
         IN  (IF IdTitleStarts(l) = {} THEN <<>>
              ELSE LET i == Min(IdTitleStarts(l))
                       e == HexRunEnd(l, i + 2)
                   IN  <<[id |-> SubSeq(l, i + 2, e),
                          title |-> Strip(SubSeq(l, e + 3, Len(l)))]>>)
             \o ItemMapOf(Tail(lines))

ItemMap(prompt_text) == ItemMapOf(SplitLines(prompt_text))

\* item_map.get(key, "Unknown Item")
MapGet(item_map, key) ==
    LET hits == {i \in 1..Len(item_map) : item_map[i].id = key}
    IN  IF hits = {} THEN <<"Unknown Item">>
        ELSE item_map[CHOOSE i \in hits : \A j \in hits : j <= i].title

\* json.loads on the text of an array.  Elements are strings ("..."),
\* numbers (digit runs) and empty lists ([]); anything else is a syntax
\* error.  Whitespace between tokens is skipped.
RECURSIVE JsonElems(_, _)
JsonElems(t, i) ==
    LET quoteEnds == {j \in (i + 1)..Len(t) : t[j] = "\""}
        elem == CASE t[i] = "\"" /\ quoteEnds # {} ->
                        [ok |-> TRUE, next |-> Min(quoteEnds) + 1,
                         e |-> [t |-> "str", v |-> SubSeq(t, i + 1, Min(quoteEnds) - 1)]]
                  [] IsDigit(t[i]) ->
                        [ok |-> TRUE, next |-> DigitRunEnd(t, i) + 1,
                         e |-> [t |-> "num", v |-> SubSeq(t, i, DigitRunEnd(t, i))]]
                  [] t[i] = "[" /\ i < Len(t) /\ t[i + 1] = "]" ->
                        [ok |-> TRUE, next |-> i + 2, e |-> [t |-> "list", v |-> <<>>]]
                  [] OTHER ->
                        [ok |-> FALSE, next |-> i, e |-> [t |-> "bad", v |-> <<>>]]
    IN  IF ~elem.ok THEN [ok |-> FALSE, elems |-> <<>>]
        ELSE IF elem.next > Len(t) THEN [ok |-> TRUE, elems |-> <<elem.e>>]
        ELSE IF t[elem.next] = "," /\ elem.next < Len(t)
             THEN LET rest == JsonElems(t, elem.next + 1)
                  IN  [ok |-> rest.ok, elems |-> <<elem.e>> \o rest.elems]
        ELSE [ok |-> FALSE, elems |-> <<>>]

JsonLoads(text) ==
    LET t == SelectSeq(text, LAMBDA c : ~IsSpace(c))
    IN  IF Len(t) < 2 \/ t[1] # "[" \/ t[Len(t)] # "]"
        THEN [ok |-> FALSE, elems |-> <<>>]
        ELSE IF Len(t) = 2 THEN [ok |-> TRUE, elems |-> <<>>]
        ELSE JsonElems(SubSeq(t, 2, Len(t) - 1), 1)

\* The text of a parsed JSON value inside an f-string.
JsonText(e) == IF e.t = "list" THEN <<"[", "]">> ELSE e.v

\* re.search(r"[MATERIALS]\n(.*?)\n[REQUIREMENTS", content_str, re.DOTALL): a
\* line ending in the material marker, at least one line of content, a line
\* starting with the requirements marker.
MaterialEnds(content, i) ==
    {m \in (i + 1)..(Len(content) - 1) :
        content[m + 1] # <<>> /\ content[m + 1][1] = "[REQUIREMENTS"}

MaterialStarts(content) ==
    {i \in 1..(Len(content) - 2) :
        EndsWithAtom(content[i], "[MATERIALS]") /\ MaterialEnds(content, i) # {}}

MaterialsMatch(content) ==
    IF MaterialStarts(content) = {} THEN NoMatch
    ELSE LET i == Min(MaterialStarts(content))
         IN  [found |-> TRUE,
              group |-> Join(SubSeq(content, i + 1, Min(MaterialEnds(content, i))))]

NoEntry == [open |-> FALSE, title_line |-> <<>>, summary |-> <<>>, source |-> <<>>]

\* The loop of lines 333-354 from line i on.
RECURSIVE MaterialLines(_, _, _, _)
MaterialLines(lines, i, raw_items, cur) ==
    IF i > Len(lines) THEN [raw_items |-> raw_items, current_item |-> cur]
    ELSE LET line == Strip(lines[i])
         IN  IF line = <<>> THEN MaterialLines(lines, i + 1, raw_items, cur)
             ELSE IF StartsWith(line, <<"-", " ">>)
                  THEN MaterialLines(lines, i + 1,
                          IF cur.open THEN Append(raw_items, cur) ELSE raw_items,
                          [open |-> TRUE, title_line |-> SubSeq(line, 3, Len(line)),
                           summary |-> <<>>, source |-> <<>>])
             ELSE IF cur.open
                  THEN MaterialLines(lines, i + 1, raw_items,
                          IF StartsWith(line, <<"SUMMARY:">>)
                          THEN [cur EXCEPT !.summary = @ \o Strip(RemoveAtom(line, "SUMMARY:"))]
                          ELSE IF StartsWith(line, <<"SOURCE:">>)
                          THEN [cur EXCEPT !.source = @ \o Strip(RemoveAtom(line, "SOURCE:"))]
                          ELSE [cur EXCEPT !.summary = @ \o <<" ">> \o line])
             ELSE MaterialLines(lines, i + 1, raw_items, cur)

\* Lines 330-357: raw_items of a materials block.
ParseMaterials(materials_raw) ==
    LET r == MaterialLines(SplitLines(Strip(materials_raw)), 1, <<>>, NoEntry)
    IN  IF r.current_item.open THEN Append(r.raw_items, r.current_item)
        ELSE r.raw_items

-----------------------------------------------------------------------------
(* generate_story_report: source matching *)

\* re.sub(r"^\[.*?\]\s*", "", title).strip()
CleanTitle(title) ==
    LET closes == {j \in 2..Len(title) : title[j] = "]"}
    IN  IF title # <<>> /\ title[1] = "[" /\ closes # {}
        THEN Strip(LStrip(SubSeq(title, Min(closes) + 1, Len(title))))
        ELSE Strip(title)

\* ns.get('source_title', '') or ''
NsTitle(ns) == IF ns.source_title.none THEN <<>> ELSE ns.source_title.v

\* The condition of line 370.
TitleMatches(ns, title, clean_title) ==
    /\ NsTitle(ns) # <<>>
    /\ \/ IsSub(NsTitle(ns), title)
       \/ IsSub(clean_title, NsTitle(ns))
       \/ IsSub(title, NsTitle(ns))

\* Lines 365-372: the index of matched_source in srcs, 0 for None; the loop
\* stops at the first match.
RECURSIVE MatchFrom(_, _, _, _)
MatchFrom(srcs, i, title, clean_title) ==
    IF i > Len(srcs) THEN 0
    ELSE IF TitleMatches(srcs[i], title, clean_title) THEN i
    ELSE MatchFrom(srcs, i + 1, title, clean_title)

\* The matching loop without its break: the last matching record wins.
MatchedSource_LastWins(srcs, title) ==
    LET hits == {i \in 1..Len(srcs) : TitleMatches(srcs[i], title, CleanTitle(title))}
    IN  IF hits = {} THEN 0 ELSE CHOOSE i \in hits : \A j \in hits : j <= i

MatchedSource(srcs, title) == MatchFrom(srcs, 1, title, CleanTitle(title))

\* str(x) of an optional text inside an f-string.
TextOf(x) == IF x.none THEN <<"None">> ELSE x.v

\* Lines 374-391 for one entry: the blocks appended to the report, or the
\* AttributeError of None.replace at line 378.
RenderEntry(entry, srcs) ==
    LET m == MatchedSource(srcs, entry.title_line)
    IN  IF m # 0
        THEN IF srcs[m].source_summary.none
             THEN [raised |-> TRUE, blocks |-> <<>>]
             ELSE LET db_summary == FlattenNewlines(srcs[m].source_summary.v)
                      final_summary ==
                          IF db_summary # <<>> /\ Len(db_summary) > Len(entry.summary)
                          THEN db_summary ELSE entry.summary
                  IN  [raised |-> FALSE,
                       blocks |-> <<Blk("matched", 0, TextOf(srcs[m].source_title),
                                        final_summary, TextOf(srcs[m].source_url))>>]
        ELSE [raised |-> FALSE,
              blocks |-> <<Blk("from_log", 0, entry.title_line,
                               entry.summary, entry.source)>>]

\* The loop of lines 360-391 from entry j on.
RECURSIVE RenderEntries(_, _, _)
RenderEntries(raw_items, j, srcs) ==
    IF j > Len(raw_items) THEN [raised |-> FALSE, blocks |-> <<>>]
    ELSE LET one == RenderEntry(raw_items[j], srcs)
         IN  IF one.raised THEN one
             ELSE LET rest == RenderEntries(raw_items, j + 1, srcs)
                  IN  [raised |-> rest.raised, blocks |-> one.blocks \o rest.blocks]

-----------------------------------------------------------------------------
(* generate_story_report: the sections *)

E == <<>>

HasName(step, marker) == IsSub(<<marker>>, step.name)

\* writer_steps when only the steps that gave a script segment are kept.
WriterSteps_OnlyWithResponse(stps) ==
    SelectSeq(stps, LAMBDA st : /\ IsSub(<<"Segment Writer Result">>, st.name)
                                /\ LLMResponse(st.content).found)

\* [s for s in steps if "Segment Writer Result" in s['name']]
WriterSteps(stps) == SelectSeq(stps, LAMBDA st : HasName(st, "Segment Writer Result"))

\* script_segments when an empty response block is skipped
\* ("if resp_match and resp_match.group(1).strip()").
RECURSIVE ScriptSegments_SkipsEmpty(_)
ScriptSegments_SkipsEmpty(stps) ==
    IF stps = <<>> THEN <<>>
    ELSE LET st == stps[1]
         IN  (IF /\ HasName(st, "Segment Writer Result")
                 /\ LLMResponse(st.content).found
                 /\ Strip(LLMResponse(st.content).group) # <<>>
              THEN <<Strip(LLMResponse(st.content).group)>>
              ELSE <<>>)
             \o ScriptSegments_SkipsEmpty(Tail(stps))

\* Lines 240-249: script_segments.
RECURSIVE ScriptSegments(_)
ScriptSegments(stps) ==
    IF stps = <<>> THEN <<>>
    ELSE LET st == stps[1]
         IN  (IF HasName(st, "Segment Writer Result") /\ LLMResponse(st.content).found
              THEN <<Strip(LLMResponse(st.content).group)>>
              ELSE <<>>)
             \o ScriptSegments(Tail(stps))

\* Lines 251-255: the numbered segments, or the placeholder.
SegmentBlocks(script_segments) ==
    IF script_segments # <<>>
    THEN [i \in 1..Len(script_segments) |-> Blk("segment", i, script_segments[i], E, E)]
    ELSE <<Blk("no_segments", 0, E, E, E)>>

\* Lines 227-258: header and Chapter 1.
FinalScriptBlocks(item, stps) ==
    <<Blk("header", 0, item.category, TextOf(item.id), E), Blk("rule", 0, E, E, E),
      Blk("chapter1", 0, E, E, E)>>
    \o SegmentBlocks(ScriptSegments(stps))
    \o <<Blk("rule", 0, E, E, E)>>

\* Lines 292-297: the planned sequence; an element that cannot be a
\* dictionary key raises inside the try, after the earlier ones were
\* rendered.
RECURSIVE PlannedItems(_, _, _)
PlannedItems(order, i, item_map) ==
    IF i > Len(order) THEN <<>>
    ELSE IF order[i].t = "list" THEN <<Blk("json_failed", 0, E, E, E)>>
    ELSE <<Blk("plan_item", i,
               IF order[i].t = "str" THEN MapGet(item_map, order[i].v)
               ELSE <<"Unknown Item">>,
               JsonText(order[i]), E)>>
         \o PlannedItems(order, i + 1, item_map)

\* Lines 261-301: Chapter 2.
BlueprintBlocks(stps) ==
    LET plans == {i \in 1..Len(stps) : HasName(stps[i], "Plan Episode Flow")}
    IN  <<Blk("chapter2", 0, E, E, E)>>
        \o (IF plans # {}
            THEN LET content == stps[Min(plans)].content
                     prompt_match == PromptMatch(content)
                     item_map == IF prompt_match.found THEN ItemMap(prompt_match.group)
                                 ELSE <<>>
                     json_match == JsonResponse(content)
                 IN  (IF prompt_match.found /\ Principles(prompt_match.group) # <<>>
                      THEN <<Blk("principles", 0,
                                 Join(Principles(prompt_match.group)), E, E)>>
                      ELSE <<>>)
                     \o (IF json_match.found
                         THEN IF JsonLoads(json_match.group).ok
                              THEN <<Blk("planned_sequence", 0, E, E, E)>>
                                   \o PlannedItems(JsonLoads(json_match.group).elems,
                                                   1, item_map)
                              ELSE <<Blk("json_failed", 0, E, E, E)>>
                         ELSE <<>>)
            ELSE <<Blk("no_plan", 0, E, E, E)>>)
        \o <<Blk("rule", 0, E, E, E), Blk("chapter3", 0, E, E, E)>>

\* Lines 313-400: the body of the production loop for writer step number n.
ProductionBlocks(step, n, srcs) ==
    LET materials_match == MaterialsMatch(step.content)
        entries == IF materials_match.found
                   THEN RenderEntries(ParseMaterials(materials_match.group), 1, srcs)
                   ELSE [raised |-> FALSE, blocks |-> <<>>]
        resp_match == LLMResponse(step.content)
    IN  [raised |-> entries.raised,
         blocks |->
            <<Blk("production", n, E, E, E)>>
            \o (IF materials_match.found
                THEN <<Blk("input_sources", n, E, E, E)>> \o entries.blocks
                ELSE <<>>)
            \o <<Blk("draft_label", n, E, E, E)>>
            \o (IF resp_match.found
                THEN <<Blk("draft", n, Strip(resp_match.group), E, E)>>
                ELSE <<>>)]

-----------------------------------------------------------------------------
(* generate_story_report: the function, section by section *)

\* Lines 199-222.
GSR_ParseSteps ==
    /\ pc = "gsr_begin"
    /\ steps' = ParseSteps(trace_content)
    /\ current_step' = ParseLines(trace_content, 1, <<>>, NoStep).current_step
    /\ report' = <<>>
    /\ wi' = 0
    /\ pc' = "gsr_script"
    /\ UNCHANGED <<trace_content, sources, matchVars, mainVars>>

\* Lines 227-258.  fromtimestamp(None) raises TypeError at line 229.
GSR_FinalScript ==
    /\ pc = "gsr_script"
    /\ IF target_item.publish_time.none
       THEN /\ pc' = "gsr_raised"
            /\ UNCHANGED report
       ELSE /\ report' = FinalScriptBlocks(target_item, steps)
            /\ pc' = "gsr_blueprint"
    /\ UNCHANGED <<trace_content, sources, steps, current_step, wi, matchVars, mainVars>>

\* Lines 261-310.
GSR_Blueprint ==
    /\ pc = "gsr_blueprint"
    /\ report' = report \o BlueprintBlocks(steps)
    /\ wi' = 1
    /\ pc' = "gsr_production"
    /\ UNCHANGED <<trace_content, sources, steps, current_step, matchVars, mainVars>>

\* Lines 312-400: one iteration of the loop over writer_steps.
GSR_Production ==
    /\ pc = "gsr_production"
    /\ wi <= Len(WriterSteps(steps))
    /\ LET r == ProductionBlocks(WriterSteps(steps)[wi], wi, sources)
       IN  IF r.raised
           THEN /\ pc' = "gsr_raised"
                /\ UNCHANGED <<report, wi>>
           ELSE /\ report' = report \o r.blocks
                /\ wi' = wi + 1
                /\ pc' = pc
    /\ UNCHANGED <<trace_content, sources, steps, current_step, matchVars, mainVars>>

\* Line 402.
GSR_Return ==
    /\ pc = "gsr_production"
    /\ wi > Len(WriterSteps(steps))
    /\ pc' = "gsr_done"
    /\ UNCHANGED <<reportVars, matchVars, mainVars>>

NextReport ==
    GSR_ParseSteps \/ GSR_FinalScript \/ GSR_Blueprint \/ GSR_Production \/ GSR_Return

-----------------------------------------------------------------------------
(* Inputs of generate_story_report *)

\* "## 1. Segment Writer Result (t)" and its like.
HeaderLine(digit, name) == <<"##", " ", digit, ".", " ", name, " ", "(", "t", ")">>

WriterHeader == HeaderLine("1", "Segment Writer Result")

PlanHeader == HeaderLine("2", "Plan Episode Flow")

\* The lines of the step parsing: two headers, a heading that is no step
\* header ("## x"), a line of text and the empty line.
SegmentLines == {WriterHeader, PlanHeader, <<"##", " ", "x">>, <<"x">>, <<>>}

\* A response block: label, opening fence, the lines of the body, closing fence.
ResponseBlock(body) ==
    <<<<"**LLM Response**:">>, TextFenceLine>> \o body \o <<<<"<fence>">>>>

\* A materials block with one entry "ab": summary "s", source "u".
MaterialsBlock ==
    <<<<"[MATERIALS]">>, <<"-", " ", "a", "b">>, <<" ", "SUMMARY:", " ", "s">>,
      <<" ", "SOURCE:", " ", "u">>, <<"[REQUIREMENTS", "]">>>>

\* The pieces traces are built from: step headers, response blocks whose body
\* is "x", " y " (to be trimmed) or the empty line, and a materials block.
Chunks ==
    {<<WriterHeader>>, <<PlanHeader>>,
     ResponseBlock(<<<<"x">>>>), ResponseBlock(<<<<" ", "y", " ">>>>),
     ResponseBlock(<<<<>>>>), MaterialsBlock}

RECURSIVE Concat(_)
Concat(ss) == IF ss = <<>> THEN <<>> ELSE ss[1] \o Concat(Tail(ss))

ReportTraces == {Concat(cs) : cs \in SeqsUpTo(Chunks, MaxChunks)}

SourceRec(title, summary, url) ==
    [source_title |-> title, source_summary |-> summary, source_url |-> url]

\* No source, a source for the entry "ab", and the same with a null summary.
ReportSources ==
    {<<>>,
     <<SourceRec(Some(<<"a", "b">>), Some(<<"l", "o", "n", "g">>), Some(<<"u", "1">>))>>,
     <<SourceRec(Some(<<"a", "b">>), None, None)>>}

ReportItems ==
    [category : {<<"A", " ", "b">>},
     publish_time : {NoneInt, Some(1767787200)},
     id : {Some(<<"i", "d">>)}]

InitCall(item, lines, srcs) ==
    /\ pc = "gsr_begin"
    /\ target_item = item
    /\ trace_content = lines
    /\ sources = srcs
    /\ trace_files = <<>>
    /\ fi = 0
    /\ candidates = <<>>
    /\ trace_path = None
    /\ items = <<>>
    /\ selection = <<>>
    /\ effects = <<>>
    /\ exit_status = -1
    /\ steps = <<>>
    /\ current_step = NoStep
    /\ report = <<>>
    /\ wi = 0

InitReport ==
    \E item \in ReportItems, lines \in ReportTraces, srcs \in ReportSources :
        InitCall(item, lines, srcs)

\* generate_story_report called on traces made of step headers, response
\* blocks and materials blocks.
SpecReport == InitReport /\ [][NextReport]_vars

InitSegment ==
    \E lines \in SeqsUpTo(SegmentLines, MaxLines) :
        InitCall(CHOOSE item \in ReportItems : ~item.publish_time.none, lines, <<>>)

\* generate_story_report called on every short sequence of lines.
SpecSegment == InitSegment /\ [][NextReport]_vars

\* Title lines of material entries: "ab", "[T] ab", "b" and the bare tag "[T]".
TitleLines ==
    {<<"a", "b">>, <<"[", "T", "]", " ", "a", "b">>, <<"b">>, <<"[", "T", "]">>}

\* A writer step whose materials block lists the given title lines.
MaterialsTrace(titles) ==
    <<WriterHeader, <<"[MATERIALS]">>>>
    \o [i \in 1..Len(titles) |-> <<"-", " ">> \o titles[i]]
    \o <<<<"[REQUIREMENTS", "]">>>>

\* Source records: no title, the empty title, and titles that contain or are
\* contained in the entries' titles.
SourceRecs ==
    {SourceRec(None, Some(<<"s">>), Some(<<"u", "0">>)),
     SourceRec(Some(<<>>), Some(<<"s">>), Some(<<"u", "1">>)),
     SourceRec(Some(<<"a", "b">>), Some(<<"s">>), Some(<<"u", "2">>)),
     SourceRec(Some(<<"a">>), Some(<<"s">>), Some(<<"u", "3">>)),
     SourceRec(Some(<<"x", "a", "b">>), Some(<<"s">>), Some(<<"u", "4">>)),
     SourceRec(Some(<<"c">>), None, Some(<<"u", "5">>))}

InitReconcile ==
    \E titles \in SeqsUpTo(TitleLines, MaxBullets),
       srcs \in SeqsUpTo(SourceRecs, MaxSources) :
        InitCall(CHOOSE item \in ReportItems : ~item.publish_time.none,
                 MaterialsTrace(titles), srcs)

\* generate_story_report called on one writer step with a materials block
\* and every short list of source records.
SpecReconcile == InitReconcile /\ [][NextReport]_vars

-----------------------------------------------------------------------------
(* main *)

DigitValue(c) ==
    CASE c = "0" -> 0 [] c = "1" -> 1 [] c = "2" -> 2 [] c = "3" -> 3
      [] c = "4" -> 4 [] c = "5" -> 5 [] c = "6" -> 6 [] c = "7" -> 7
      [] c = "8" -> 8 [] OTHER -> 9

RECURSIVE DigitsValue(_)
DigitsValue(ds) ==
    IF ds = <<>> THEN 0
    ELSE DigitsValue(SubSeq(ds, 1, Len(ds) - 1)) * 10 + DigitValue(ds[Len(ds)])

\* int(text): an optional sign and decimal digits, surrounding whitespace
\* ignored; ok = FALSE is ValueError.
IntOf(text) ==
    LET t == Strip(text)
        signed == t # <<>> /\ t[1] \in {"+", "-"}
        ds == IF signed THEN Tail(t) ELSE t
    IN  IF ds # <<>> /\ \A i \in 1..Len(ds) : IsDigit(ds[i])
        THEN [ok |-> TRUE,
              val |-> IF signed /\ t[1] = "-" THEN 0 - DigitsValue(ds)
                      ELSE DigitsValue(ds)]
        ELSE [ok |-> FALSE, val |-> 0]

\* Lines 127-128: selection = input(...).strip(); idx = int(selection) if selection else 0
SelectedIdx(line) ==
    IF Strip(line) = <<>> THEN [ok |-> TRUE, val |-> 0] ELSE IntOf(Strip(line))

\* items[idx]: the position in the list (from 1), 0 for IndexError.  A
\* negative idx counts from the end of the list.
ListIndex(n, idx) ==
    IF 0 <= idx /\ idx < n THEN idx + 1
    ELSE IF idx < 0 /\ 0 - idx <= n THEN n + idx + 1
    ELSE 0

InMain == effects # <<>>

\* Lines 111-123: fetch the items, stop when there is none, print the list.
Main_Fetch ==
    /\ pc = "main"
    /\ effects' = Append(effects, "get_recent_items")
    /\ IF items = <<>>
       THEN /\ exit_status' = 1
            /\ pc' = "exit"
       ELSE /\ pc' = "main_select"
            /\ UNCHANGED exit_status
    /\ UNCHANGED <<items, selection, matchVars, reportVars>>

\* Lines 126-137: read the selection and call find_matching_trace.
Main_Select ==
    /\ pc = "main_select"
    /\ LET idx == SelectedIdx(selection)
           pos == IF idx.ok THEN ListIndex(Len(items), idx.val) ELSE 0
       IN  IF pos = 0
           THEN /\ exit_status' = 1
                /\ pc' = "exit"
                /\ UNCHANGED <<target_item, effects>>
           ELSE /\ target_item' = items[pos]
                /\ effects' = Append(effects, "find_matching_trace")
                /\ pc' = "fmt_begin"
                /\ UNCHANGED exit_status
    /\ UNCHANGED <<items, selection, trace_files, fi, candidates, trace_path, reportVars>>

\* get_item_sources(item_id): [] without an id, else what the catalog holds.
get_item_sources(item_id, held) == IF item_id.none \/ item_id.v = <<>> THEN <<>> ELSE held

\* Lines 139-151 and 165-168: with a trace, fetch the sources, read the trace
\* and call generate_story_report; without one, report that and end.
Main_AfterFind ==
    /\ pc = "fmt_done"
    /\ InMain
    /\ IF ~trace_path.none
       THEN /\ sources' = get_item_sources(target_item.id, sources)
            /\ effects' = effects \o <<"get_item_sources", "read_trace">>
            /\ pc' = "gsr_begin"
            /\ UNCHANGED exit_status
       ELSE /\ exit_status' = 0
            /\ pc' = "exit"
            /\ UNCHANGED <<sources, effects>>
    /\ UNCHANGED <<items, selection, matchVars, trace_content, steps, current_step,
                   report, wi>>

\* Lines 153-163: print the report and save it.  None[:8] raises TypeError
\* before the file is opened.
Main_Save ==
    /\ pc = "gsr_done"
    /\ InMain
    /\ IF target_item.id.none
       THEN /\ exit_status' = 1
            /\ UNCHANGED effects
       ELSE /\ exit_status' = 0
            /\ effects' = Append(effects, "write_report")
    /\ pc' = "exit"
    /\ UNCHANGED <<items, selection, matchVars, reportVars>>

\* An exception out of find_matching_trace or generate_story_report is not
\* caught: the interpreter prints the traceback and exits with status 1.
Main_Uncaught ==
    /\ pc \in {"fmt_raised", "gsr_raised"}
    /\ InMain
    /\ exit_status' = 1
    /\ pc' = "exit"
    /\ UNCHANGED <<items, selection, effects, matchVars, reportVars>>

NextMain ==
    \/ Main_Fetch \/ Main_Select \/ Main_AfterFind \/ Main_Save \/ Main_Uncaught
    \/ NextMatch \/ NextReport

-----------------------------------------------------------------------------
(* Inputs of main *)

\* An item whose trace exists, one without publish_time, one without id.
MainItems ==
    {[category |-> <<"A", " ", "b">>, publish_time |-> Some(1767787201),
      id |-> Some(<<"i", "d">>)],
     [category |-> <<"A", " ", "b">>, publish_time |-> NoneInt,
      id |-> Some(<<"i", "d">>)],
     [category |-> <<"A", " ", "b">>, publish_time |-> Some(1767787201), id |-> None]}

\* The lines typed at the prompt: nothing, a blank, indices, negative
\* numbers, and text that is no integer.
Selections ==
    {<<>>, <<" ">>, <<"0">>, <<"1">>, <<"2">>, <<"3">>, <<" ", "1", " ">>, <<"+", "1">>,
     <<"-", "1">>, <<"-", "3">>, <<"-", "4">>, <<"x">>, <<"1", ".", "5">>}

MainFile ==
    [gram |-> TRUE, mo |-> 1, d |-> 7, hh |-> 12, mm |-> 0,
     cat |-> <<"A", "_", "b">>, id |-> <<"8", "6">>]

\* The trace directory: empty, one matching trace, or also a name whose date
\* is 20260132.
MainListings ==
    {<<>>, <<MainFile>>, <<MainFile, [MainFile EXCEPT !.d = 32]>>}

\* The trace that is read: a plan step with prompt and ordering, and a
\* writer step with materials and response.
MainTrace ==
    <<PlanHeader, <<"**LLM Prompt**:">>, TextFenceLine, <<"Role:", " ", "x">>,
      <<"1", ".", " ", "**", "p", "**", ":", " ", "q">>,
      <<"-", " ", "a", "1", ":", " ", "T">>, <<"<fence>">>>>
    \o ResponseBlock(<<<<"[", "\"", "a", "1", "\"", ",", "7", "]">>>>)
    \o <<WriterHeader>> \o MaterialsBlock \o ResponseBlock(<<<<"x">>>>)

InitMain ==
    /\ pc = "main"
    /\ items \in SeqsUpTo(MainItems, MaxItems)
    /\ selection \in Selections
    /\ trace_files \in MainListings
    /\ trace_content = MainTrace
    /\ sources \in ReportSources
    /\ target_item = CHOOSE item \in MainItems : TRUE
    /\ fi = 0
    /\ candidates = <<>>
    /\ trace_path = None
    /\ effects = <<>>
    /\ exit_status = -1
    /\ steps = <<>>
    /\ current_step = NoStep
    /\ report = <<>>
    /\ wi = 0

\* One run of the script.
SpecMain == InitMain /\ [][NextMain]_vars

-----------------------------------------------------------------------------
(* Inputs of find_matching_trace *)

\* Filenames that decode: 2026-01-07, 11:00 .. 12:30, three category tokens.
GoodFiles ==
    [gram : {TRUE}, mo : {1}, d : {7}, hh : {11, 12}, mm : {0, 30},
     cat : {<<"A", "_", "b">>, <<"a", "_", "B">>, <<"T">>}, id : {<<"8", "6">>}]

\* A name outside the grammar, and names inside it whose digits are no date
\* or no time of day (20260132, 20260230, 2400, 1160).
BadFiles ==
    {[gram |-> FALSE, mo |-> 1, d |-> 7, hh |-> 12, mm |-> 0,
      cat |-> <<"A", "_", "b">>, id |-> <<"8", "6">>],
     [gram |-> TRUE, mo |-> 1, d |-> 32, hh |-> 12, mm |-> 0,
      cat |-> <<"A", "_", "b">>, id |-> <<"8", "6">>],
     [gram |-> TRUE, mo |-> 2, d |-> 30, hh |-> 12, mm |-> 0,
      cat |-> <<"T">>, id |-> <<"8", "6">>],
     [gram |-> TRUE, mo |-> 1, d |-> 7, hh |-> 24, mm |-> 0,
      cat |-> <<"A", "_", "b">>, id |-> <<"8", "6">>],
     [gram |-> TRUE, mo |-> 1, d |-> 7, hh |-> 11, mm |-> 60,
      cat |-> <<"A", "_", "b">>, id |-> <<"8", "6">>]}

TraceFileNames == GoodFiles \cup BadFiles

\* Unix timestamps of 2026-01-07 12:00:00, 12:00:01 and 12:45:00; 0 and None
\* are the items without a usable publish_time.
PublishTimes ==
    {NoneInt, Some(0), Some(1767787200), Some(1767787201), Some(1767789900)}

MatchItems ==
    [category : {<<"A", " ", "b">>, <<"t">>}, publish_time : PublishTimes,
     id : {Some(<<"i", "d">>)}]

InitMatch ==
    /\ pc = "fmt_begin"
    /\ target_item \in MatchItems
    /\ trace_files \in DistinctSeqs(TraceFileNames, MaxFiles)
    /\ fi = 0
    /\ candidates = <<>>
    /\ trace_path = None
    /\ items = <<>>
    /\ selection = <<>>
    /\ effects = <<>>
    /\ exit_status = -1
    /\ trace_content = <<>>
    /\ sources = <<>>
    /\ steps = <<>>
    /\ current_step = NoStep
    /\ report = <<>>
    /\ wi = 0

\* find_matching_trace called on every item and every directory listing.
SpecMatch == InitMatch /\ [][NextMatch]_vars

-----------------------------------------------------------------------------
(* Claims about find_matching_trace.  Eligibility as the specification      *)
(* states it (section 3): the filename decodes, the categories agree        *)
(* ignoring case, the trace is strictly earlier than the publication, and   *)
(* the gap is at most 3600 seconds.                                         *)

Decodes(f) == f.gram /\ StrptimeAccepts(f)

GapOf(f, item) == FromTimestamp(item.publish_time.v) - Strptime(f)

Eligible(f, item) ==
    /\ Decodes(f)
    /\ Lower(f.cat) = Lower(ReplaceSpace(item.category))
    /\ Strptime(f) < FromTimestamp(item.publish_time.v)
    /\ GapOf(f, item) <= 3600

EligibleIdx == {i \in 1..Len(trace_files) : Eligible(trace_files[i], target_item)}

\* C1: every trace find_matching_trace returns for an item with a publish
\* timestamp is eligible: same category ignoring case, strictly earlier than
\* the publish time, at most 3600 seconds before it.
C1_ReturnedTraceIsEligible ==
    (pc = "fmt_done" /\ TruthyInt(target_item.publish_time) /\ ~trace_path.none)
        => Eligible(trace_path.v, target_item)

\* C2: find_matching_trace returns the eligible candidate with the smallest
\* gap, the first one in enumeration order among those tied for it, and
\* returns none exactly when no candidate is eligible.
C2_ReturnsFirstClosestEligible ==
    (pc = "fmt_done" /\ TruthyInt(target_item.publish_time)) =>
        /\ trace_path.none <=> EligibleIdx = {}
        /\ ~trace_path.none =>
             \E i \in EligibleIdx :
                /\ trace_path.v = trace_files[i]
                /\ \A j \in EligibleIdx :
                      /\ GapOf(trace_files[i], target_item)
                           <= GapOf(trace_files[j], target_item)
                      /\ GapOf(trace_files[j], target_item)
                           = GapOf(trace_files[i], target_item) => i <= j

\* C4: parse_trace_filename never raises: a filename inside the grammar whose
\* digits are no calendar date or time of day is skipped like a name outside
\* the grammar, so the search always runs to its end.
C4_DecodeNeverRaises == pc # "fmt_raised"

-----------------------------------------------------------------------------
(* Claims about main *)

\* The selection names an entry of the printed list [0] .. [n-1].
SelectsPrintedIndex ==
    /\ SelectedIdx(selection).ok
    /\ SelectedIdx(selection).val \in 0..(Len(items) - 1)

\* C5: when no item was fetched, or the selection is no number or no index
\* of the printed list, the run ends with a non-zero status before
\* find_matching_trace is called, and fetches no sources, reads no trace and
\* writes no report.
C5_InvalidSelectionStopsRun ==
    (InMain /\ (items = <<>> \/ ~SelectsPrintedIndex)) =>
        /\ \A i \in 1..Len(effects) :
              effects[i] \notin {"find_matching_trace", "get_item_sources",
                                 "read_trace", "write_report"}
        /\ pc = "exit" => exit_status # 0

-----------------------------------------------------------------------------
(* Claims about the step parsing *)

HeaderPositions == {i \in 1..Len(trace_content) : IsHeader(trace_content[i])}

\* The j-th header position.
NthHeader(j) ==
    CHOOSE i \in HeaderPositions : Cardinality({k \in HeaderPositions : k < i}) = j - 1

\* The position that ends the body of the j-th step.
BodyEnd(j) ==
    IF j < Cardinality(HeaderPositions) THEN NthHeader(j + 1) - 1
    ELSE Len(trace_content)

RECURSIVE SumLen(_)
SumLen(ss) == IF ss = <<>> THEN 0 ELSE Len(ss[1]) + SumLen(Tail(ss))

\* C6: the step parsing partitions the trace: one step per header line, in
\* input order; the body of a step is exactly the lines between its header
\* and the next header (or the end); the lines before the first header are
\* in no step, so the bodies hold each non-header line after the first
\* header once; no header gives no step.
C6_StepsPartitionTrace ==
    pc # "gsr_begin" =>
        /\ Len(steps) = Cardinality(HeaderPositions)
        /\ \A j \in 1..Len(steps) :
              /\ steps[j].id = HeaderId(trace_content[NthHeader(j)])
              /\ steps[j].name = HeaderName(trace_content[NthHeader(j)])
              /\ steps[j].content = SubSeq(trace_content, NthHeader(j) + 1, BodyEnd(j))
        /\ SumLen([j \in 1..Len(steps) |-> steps[j].content])
             = Cardinality({i \in 1..Len(trace_content) :
                              /\ i \notin HeaderPositions
                              /\ \E h \in HeaderPositions : h < i})

\* A trace with a discarded first line and two steps, one with a body.
C6_Witness ==
    /\ pc = "gsr_done"
    /\ Len(steps) >= 2
    /\ 1 \notin HeaderPositions
    /\ \E j \in 1..Len(steps) : steps[j].content # <<>>

-----------------------------------------------------------------------------
(* Claims about the report *)

OfKind(blocks, k) == SelectSeq(blocks, LAMBDA b : b.k = k)

PositionsOf(k) == {i \in 1..Len(report) : report[i].k = k}

\* The report has its four parts, once each and in order.
SectionsInOrder ==
    /\ \A k \in {"header", "chapter1", "chapter2", "chapter3"} :
          Cardinality(PositionsOf(k)) = 1
    /\ \A i \in PositionsOf("header"), j \in PositionsOf("chapter1"),
          k \in PositionsOf("chapter2"), l \in PositionsOf("chapter3") :
          i < j /\ j < k /\ k < l

\* C3: generate_story_report never aborts, whatever the trace and the source
\* records (here for an item that has a publish time): it returns a document
\* with header, Chapter 1, Chapter 2 and Chapter 3 in that order.
C3_ReportNeverAborts ==
    ~target_item.publish_time.none =>
        /\ pc # "gsr_raised"
        /\ pc = "gsr_done" => SectionsInOrder

\* The writer steps of the trace, read off its header lines.
WriterHeaders ==
    {i \in HeaderPositions :
        IsSub(<<"Segment Writer Result">>, HeaderName(trace_content[i]))}

NthWriter(j) ==
    CHOOSE i \in WriterHeaders : Cardinality({k \in WriterHeaders : k < i}) = j - 1

\* The body of the j-th writer step.
WriterBody(j) ==
    LET later == {h \in HeaderPositions : h > NthWriter(j)}
    IN  SubSeq(trace_content, NthWriter(j) + 1,
               IF later = {} THEN Len(trace_content) ELSE Min(later) - 1)

\* The response extraction of every writer step, in step order.
Extractions == [j \in 1..Cardinality(WriterHeaders) |-> LLMResponse(WriterBody(j))]

SegmentTexts == [i \in 1..Len(OfKind(report, "segment")) |-> OfKind(report, "segment")[i].a]

SegmentNumbers == [i \in 1..Len(OfKind(report, "segment")) |-> OfKind(report, "segment")[i].n]

Chapter1Built == pc \in {"gsr_blueprint", "gsr_production", "gsr_done"}

\* C8 as stated: Chapter 1 shows exactly the non-empty response extractions of
\* the writer steps, in step order, numbered 1..m, and the placeholder exactly
\* when there is no non-empty extraction.
C8_OnlyNonEmptySegments ==
    Chapter1Built =>
        LET found == SelectSeq(Extractions, LAMBDA r : r.found /\ Strip(r.group) # <<>>)
        IN  /\ SegmentTexts = [i \in 1..Len(found) |-> Strip(found[i].group)]
            /\ SegmentNumbers = [i \in 1..Len(found) |-> i]
            /\ (PositionsOf("no_segments") # {}) <=> (found = <<>>)

\* C8 amended: Chapter 1 shows the trimmed response block of every writer
\* step that has one, also when the trimmed block is empty, in step order,
\* numbered 1..m, and the placeholder exactly when no writer step has a
\* response block.
C8_EveryResponseBlockIsASegment ==
    Chapter1Built =>
        LET found == SelectSeq(Extractions, LAMBDA r : r.found)
        IN  /\ SegmentTexts = [i \in 1..Len(found) |-> Strip(found[i].group)]
            /\ SegmentNumbers = [i \in 1..Len(found) |-> i]
            /\ (PositionsOf("no_segments") # {}) <=> (found = <<>>)

\* A report whose second segment is an empty response block.
C8_Witness ==
    /\ pc = "gsr_done"
    /\ Len(SegmentTexts) = 2
    /\ SegmentTexts[1] # <<>>
    /\ SegmentTexts[2] = <<>>

\* The only placeholder texts of the function (lines 255, 297 and 299).
Placeholders == {"no_segments", "no_plan", "json_failed"}

PlanSteps == {i \in 1..Len(steps) : HasName(steps[i], "Plan Episode Flow")}

\* The blocks of Chapter 2.
Chapter2 ==
    SubSeq(report, Min(PositionsOf("chapter2")) + 1, Min(PositionsOf("chapter3")) - 1)

HasPlaceholder(blocks) == \E i \in 1..Len(blocks) : blocks[i].k \in Placeholders

\* The blocks of the production entry of writer step j.
ProductionEntry(j) ==
    SelectSeq(SubSeq(report, Min(PositionsOf("chapter3")) + 1, Len(report)),
              LAMBDA b : b.n = j)

\* C9: whenever an extractor finds nothing (no prompt section, no principles
\* or no ordering array in the plan step; no materials block or no response
\* block in a writer step of the production log), the report shows a
\* placeholder at that place.
C9_ParseMissShowsPlaceholder ==
    pc = "gsr_done" =>
        /\ \A p \in PlanSteps :
              (p = Min(PlanSteps) /\
                 (\/ ~PromptMatch(steps[p].content).found
                  \/ Principles(PromptMatch(steps[p].content).group) = <<>>
                  \/ ~JsonResponse(steps[p].content).found))
                => HasPlaceholder(Chapter2)
        /\ \A j \in 1..Cardinality(WriterHeaders) :
              (~MaterialsMatch(WriterBody(j)).found \/ ~LLMResponse(WriterBody(j)).found)
                => HasPlaceholder(ProductionEntry(j))

ProductionNumbers ==
    [i \in 1..Len(OfKind(report, "production")) |-> OfKind(report, "production")[i].n]

DraftsOf(j) == SelectSeq(OfKind(report, "draft"), LAMBDA b : b.n = j)

\* C10: Chapter 3 has one production entry per writer step, numbered 1..n in
\* step order; Chapter 1 has at most n segments; and when it has n, segment k
\* of Chapter 1 is the draft shown in production entry k, for every k.
C10_SegmentAndProductionNumbersAgree ==
    pc = "gsr_done" =>
        LET n == Cardinality(WriterHeaders)
        IN  /\ ProductionNumbers = [i \in 1..n |-> i]
            /\ Len(SegmentTexts) <= n
            /\ Len(SegmentTexts) = n =>
                  \A k \in 1..n :
                     /\ SegmentNumbers[k] = k
                     /\ Len(DraftsOf(k)) = 1
                     /\ DraftsOf(k)[1].a = SegmentTexts[k]

\* Two writer steps, each with a response block, with different texts.
C10_Witness ==
    /\ pc = "gsr_done"
    /\ Cardinality(WriterHeaders) = 2
    /\ Len(SegmentTexts) = 2
    /\ SegmentTexts[1] # SegmentTexts[2]
    /\ DraftsOf(2) # <<>>

-----------------------------------------------------------------------------
(* Claims about the source matching *)

\* The title lines of the materials block, read off the bullets of the trace.
BulletTitles ==
    LET bullets == SelectSeq(trace_content, LAMBDA l : StartsWith(l, <<"-", " ">>))
    IN  [i \in 1..Len(bullets) |-> SubSeq(bullets[i], 3, Len(bullets[i]))]

\* The source records the claim makes eligible for a title line.
EligibleSources(title) ==
    {i \in 1..Len(sources) :
        /\ ~sources[i].source_title.none
        /\ sources[i].source_title.v # <<>>
        /\ \/ IsSub(sources[i].source_title.v, title)
           \/ IsSub(CleanTitle(title), sources[i].source_title.v)
           \/ IsSub(title, sources[i].source_title.v)}

EntryBlocks == SelectSeq(report, LAMBDA b : b.k \in {"matched", "from_log"})

\* C7: every material entry is rendered once; it is rendered with the first
\* source record, in input order, whose title is non-empty and is contained
\* in the raw title line, or contains the clean title, or contains the raw
\* title line; it is rendered as unmatched exactly when there is no such
\* record.
C7_FirstEligibleSourceWins ==
    pc = "gsr_done" =>
        /\ Len(EntryBlocks) = Len(BulletTitles)
        /\ \A j \in 1..Len(EntryBlocks) :
              LET elig == EligibleSources(BulletTitles[j])
              IN  /\ (EntryBlocks[j].k = "from_log") <=> (elig = {})
                  /\ elig = {} => EntryBlocks[j].a = BulletTitles[j]
                  /\ elig # {} =>
                        /\ EntryBlocks[j].a = sources[Min(elig)].source_title.v
                        /\ EntryBlocks[j].c = TextOf(sources[Min(elig)].source_url)

\* An entry with two eligible records of different titles, rendered matched.
C7_Witness ==
    /\ pc = "gsr_done"
    /\ \E j \in 1..Len(EntryBlocks) :
          LET elig == EligibleSources(BulletTitles[j])
          IN  /\ Cardinality(elig) >= 2
              /\ \E i \in elig : sources[i].source_title # sources[Min(elig)].source_title
              /\ EntryBlocks[j].k = "matched"
    /\ \E j \in 1..Len(EntryBlocks) : EntryBlocks[j].k = "from_log"

=============================================================================
